---------------------------- MODULE Spec2Model ----------------------------
(***************************************************************************)
(* X trends agent (src/src/langgraph_agents/agent.py; the copy under       *)
(* src/src/beeai_agents/agent.py has the same code with Spanish comments). *)
(*                                                                         *)
(* A text is a sequence of one-character strings, so that strip, lower,    *)
(* replace, split and join are computed character by character, as the     *)
(* Python string methods compute them.                                     *)
(*                                                                         *)
(* Three specifications share the module:                                  *)
(*   Spec       the request handler and the three graph nodes, for         *)
(*              several requests served concurrently;                      *)
(*   SpecParse  the parsing of the trend-extraction reply (lines 62-65);   *)
(*   SpecNorm   the country-token normalization and the URL (lines 43-48). *)
(***************************************************************************)
EXTENDS Naturals, Sequences, FiniteSets

VARIABLES
    \* ---- Spec: the pipeline ----
    pc,        \* per request: where the handler / the running node is suspended
    state,     \* per request: the AgentState dict (line 19-23), or NoState
    frame,     \* per request: the local variables of the node that is running
    pending,   \* per request: the set of language-model calls in flight
    calls,     \* per request: history of the calls it issued (ghost)
    stages,    \* per request: history of the stages it entered (ghost)
    out,       \* per request: the AgentMessages the handler yielded
    \* ---- SpecParse ----
    p_content, \* trends_res.content
    p_pieces,  \* the pieces p_content was built from (ghost)
    p_trends,  \* the value returned under "trends"
    p_pc,
    \* ---- SpecNorm ----
    n_content, \* country_res.content
    n_chunks,  \* how many chunks n_content was built from
    n_country, \* country
    n_url,     \* url
    n_again,   \* the normalization applied to country once more
    n_pc

pipeVars == <<pc, state, frame, pending, calls, stages, out>>
parseVars == <<p_content, p_pieces, p_trends, p_pc>>
normVars == <<n_content, n_chunks, n_country, n_url, n_again, n_pc>>
vars == <<pipeVars, parseVars, normVars>>

---------------------------------------------------------------------------
(* Python string methods                                                   *)

\* str.strip() with no argument strips these (ASCII) whitespace characters.
Whitespace == {" ", "\t", "\n", "\r"}

UpperLetters == <<"A","B","C","D","E","F","G","H","I","J","K","L","M",
                  "N","O","P","Q","R","S","T","U","V","W","X","Y","Z">>
LowerLetters == <<"a","b","c","d","e","f","g","h","i","j","k","l","m",
                  "n","o","p","q","r","s","t","u","v","w","x","y","z">>

RECURSIVE LStrip(_)
LStrip(s) ==
    IF s # <<>> /\ Head(s) \in Whitespace THEN LStrip(Tail(s)) ELSE s

RECURSIVE RStrip(_)
RStrip(s) ==
    IF s # <<>> /\ s[Len(s)] \in Whitespace
    THEN RStrip(SubSeq(s, 1, Len(s) - 1))
    ELSE s

\* s.strip()
Strip(s) == RStrip(LStrip(s))

LowerChar(c) ==
    IF \E i \in 1..Len(UpperLetters) : UpperLetters[i] = c
    THEN LowerLetters[CHOOSE i \in 1..Len(UpperLetters) : UpperLetters[i] = c]
    ELSE c

\* s.lower()
Lower(s) == [i \in 1..Len(s) |-> LowerChar(s[i])]

\* s.replace(c, "") for a one-character c
RemoveChar(s, c) == SelectSeq(s, LAMBDA x : x # c)

\* s.split(sep) for a one-character sep: always at least one piece
RECURSIVE SplitFrom(_, _, _)
SplitFrom(s, sep, cur) ==
    IF s = <<>> THEN <<cur>>
    ELSE IF Head(s) = sep THEN <<cur>> \o SplitFrom(Tail(s), sep, <<>>)
    ELSE SplitFrom(Tail(s), sep, Append(cur, Head(s)))

Split(s, sep) == SplitFrom(s, sep, <<>>)

\* sep.join(parts)
RECURSIVE Join(_, _)
Join(parts, sep) ==
    IF parts = <<>> THEN <<>>
    ELSE IF Len(parts) = 1 THEN parts[1]
    ELSE parts[1] \o sep \o Join(Tail(parts), sep)

\* xs[:n]
Take(xs, n) == SubSeq(xs, 1, IF Len(xs) < n THEN Len(xs) ELSE n)

---------------------------------------------------------------------------
(* analyze_and_get_trends: the pure parts                                  *)

\* trends[:5]
MaxTrends == 5

\* t.strip() for each t
StripAll(ps) == [i \in 1..Len(ps) |-> Strip(ps[i])]

ParseTrendsNoLimit(content) ==
    SelectSeq(StripAll(Split(content, ",")), LAMBDA t : t # <<>>)

ParseTrendsOnSpace(content) ==
    Take(SelectSeq(StripAll(Split(content, " ")), LAMBDA t : t # <<>>), MaxTrends)

\* lines 63 and 65
ParseTrends(content) ==
    Take(SelectSeq(StripAll(Split(content, ",")), LAMBDA t : t # <<>>), MaxTrends)

\* line 44: content.strip().lower().replace("'", "").replace('"', "")
NormalizeCountry(content) ==
    RemoveChar(RemoveChar(Lower(Strip(content)), "'"), "\"")

Global == <<"g","l","o","b","a","l">>

\* line 47
BaseUrl == <<"h","t","t","p","s",":","/","/","t","r","e","n","d","s","2","4",
             ".","i","n","/">>

BuildUrlNoSlash(country) == IF country # Global THEN BaseUrl \o country ELSE BaseUrl

\* line 48
BuildUrl(country) ==
    IF country # Global THEN BaseUrl \o country \o <<"/">> ELSE BaseUrl

---------------------------------------------------------------------------
(* SpecParse: the reply to the extraction prompt is built piece by piece,  *)
(* the pieces joined by commas, and then parsed.                           *)

MaxPieces == 7

\* A comma-free piece: leading whitespace, a core with no outer whitespace
\* (possibly empty), trailing whitespace.
PieceSet ==
    { [lead |-> <<>>,         core |-> <<>>,            trail |-> <<>>],
      [lead |-> <<" ">>,      core |-> <<>>,            trail |-> <<"\n">>],
      [lead |-> <<>>,         core |-> <<"a">>,         trail |-> <<>>],
      [lead |-> <<" ", " ">>, core |-> <<"b"," ","c">>, trail |-> <<"\n">>],
      [lead |-> <<>>,         core |-> <<"a">>,         trail |-> <<"\t">>] }

PieceText(p) == p.lead \o p.core \o p.trail

ParseIdle ==
    /\ p_pc = "off" /\ p_content = <<>> /\ p_pieces = <<>> /\ p_trends = <<>>

ParseInit ==
    /\ p_pc = "build"
    /\ \E p \in PieceSet : p_pieces = <<p>> /\ p_content = PieceText(p)
    /\ p_trends = <<>>

\* the model's reply grows by ",<piece>"
ParseAddPiece ==
    /\ p_pc = "build"
    /\ Len(p_pieces) < MaxPieces
    /\ \E p \in PieceSet :
        /\ p_pieces' = Append(p_pieces, p)
        /\ p_content' = p_content \o <<",">> \o PieceText(p)
    /\ UNCHANGED <<p_trends, p_pc>>

\* lines 62-65
ParseApply ==
    /\ p_pc = "build"
    /\ p_trends' = ParseTrends(p_content)
    /\ p_pc' = "parsed"
    /\ UNCHANGED <<p_content, p_pieces>>

NextParse ==
    \/ ParseAddPiece /\ UNCHANGED <<pipeVars, normVars>>
    \/ ParseApply /\ UNCHANGED <<pipeVars, normVars>>

---------------------------------------------------------------------------
(* SpecNorm: the reply to the country prompt is built chunk by chunk, then *)
(* normalized, the URL built, and the token normalized once more.          *)

MaxChunks == 4

ChunkSet ==
    { <<" ">>, <<"'">>, <<"\"">>, <<"\n">>,
      <<"g","l","o","b","a","l">>, <<"G","l","o","b","a","l">>,
      <<"j","a","p","a","n">>, <<"J","A","P","A","N">> }

NormIdle ==
    /\ n_pc = "off" /\ n_content = <<>> /\ n_chunks = 0 /\ n_country = <<>>
    /\ n_url = <<>> /\ n_again = <<>>

NormInit ==
    /\ n_pc = "build" /\ n_content = <<>> /\ n_chunks = 0 /\ n_country = <<>>
    /\ n_url = <<>> /\ n_again = <<>>

\* the model's reply grows by one chunk
NormAddChunk ==
    /\ n_pc = "build"
    /\ n_chunks < MaxChunks
    /\ \E c \in ChunkSet : n_content' = n_content \o c
    /\ n_chunks' = n_chunks + 1
    /\ UNCHANGED <<n_country, n_url, n_again, n_pc>>

\* lines 43-44
NormNormalize ==
    /\ n_pc = "build"
    /\ n_country' = NormalizeCountry(n_content)
    /\ n_pc' = "normalized"
    /\ UNCHANGED <<n_content, n_chunks, n_url, n_again>>

\* lines 47-48
NormBuildUrl ==
    /\ n_pc = "normalized"
    /\ n_url' = BuildUrl(n_country)
    /\ n_pc' = "url"
    /\ UNCHANGED <<n_content, n_chunks, n_country, n_again>>

\* line 44 applied to the token it produced
NormRenormalize ==
    /\ n_pc = "url"
    /\ n_again' = NormalizeCountry(n_country)
    /\ n_pc' = "renormalized"
    /\ UNCHANGED <<n_content, n_chunks, n_country, n_url>>

NextNorm ==
    \/ NormAddChunk /\ UNCHANGED <<pipeVars, parseVars>>
    \/ NormNormalize /\ UNCHANGED <<pipeVars, parseVars>>
    \/ NormBuildUrl /\ UNCHANGED <<pipeVars, parseVars>>
    \/ NormRenormalize /\ UNCHANGED <<pipeVars, parseVars>>

---------------------------------------------------------------------------
(* Spec: the handler (lines 143-152) runs the compiled graph (lines        *)
(* 102-113) get_trends -> research_context -> synthesize -> END, once per  *)
(* inbound message.  A step of the model is the code between two           *)
(* suspension points (an await of llm.ainvoke, a node boundary of the      *)
(* graph).  search_wrapper.results is a blocking call: it is issued and    *)
(* returns (or raises) inside one step.  The language model and the search *)
(* service are outside the program: what they return is chosen from the    *)
(* sets below, and either may raise instead.                               *)

Requests == {"r1", "r2"}

\* The inbound Message of each request.
Inbound ==
    [r \in Requests |->
        IF r = "r1" THEN [text |-> <<"J","a","p","a","n","?">>]
        ELSE [text |-> <<>>]]

\* line 145: get_message_text(input)
get_message_text(input) == input.text

CountryReplies ==
    { <<" ","G","l","o","b","a","l","\n">>, <<"'","J","a","p","a","n","'">> }

ExtractReplies ==
    { <<>>,
      <<"b","i","g"," ","g","a","m","e">>,
      <<" ","x"," ",","," ",",","y",",","x">>,
      <<"a",",","b",",","c",",","d",",","e",",","f">> }

ContextReplies == { <<" ","w","h","y","\n">>, <<"u">> }

FinalReplies == { <<" ","H","i","!","\n">>, <<>> }

\* search_wrapper.results(search_query, max_results=5): a result may lack
\* its snippet
TrendSearchOutcomes ==
    { <<>>, << [snippet |-> <<"s">>], [title |-> <<"t">>] >> }

\* search_wrapper.results(context_query, max_results=3)
ContextSearchOutcomes ==
    { <<>>, << [snippet |-> <<"n">>, link |-> <<"l">>] >> }

\* line 149
InitialState(q) ==
    [query |-> q, trends |-> <<>>, context_reports |-> <<>>,
     final_report |-> <<>>]

NoState == [query |-> <<"-">>]
NoFrame == [node |-> "none"]

\* The prompts and the search queries are fixed templates with holes; a
\* prompt is modelled as the record of what fills the holes.
\* lines 37-42
CountryPrompt(query) == [kind |-> "country", query |-> query]

\* line 53
SearchQuery(country) ==
    [kind |-> "top_trends",
     country |-> IF country # Global THEN country ELSE <<>>]

\* r.get('snippet', '')
Snippet(res) == IF "snippet" \in DOMAIN res THEN res.snippet ELSE <<>>

\* line 56
ResultsText(results) ==
    Join([i \in 1..Len(results) |-> Snippet(results[i])], <<"\n">>)

\* lines 57-61
ExtractPrompt(url, results_text) ==
    [kind |-> "extract", url |-> url, results_text |-> results_text]

\* line 72
ContextQuery(trend) == [kind |-> "why", trend |-> trend]

\* lines 75-80
ContextPrompt(trend, search_results) ==
    [kind |-> "context", trend |-> trend, search_results |-> search_results]

\* line 88
ReportsText(context_reports) == Join(context_reports, <<"\n", "\n">>)

\* lines 90-96
FinalPrompt(reports_text) == [kind |-> "final", reports_text |-> reports_text]

\* line 65: the update get_trends returns
TrendsUpdate(content) == [trends |-> ParseTrends(content)]

PrependReport(reports, content) == <<Strip(content)>> \o reports

\* line 82: reports.append(context_res.content.strip())
AppendReport(reports, content) == Append(reports, Strip(content))

ReportsUpdateClearsTrends(reports) ==
    [context_reports |-> reports, trends |-> <<>>]

\* line 84: the update research_context returns
ReportsUpdate(reports) == [context_reports |-> reports]

\* line 98: the update synthesize returns
FinalUpdate(content) == [final_report |-> Strip(content)]

\* StateGraph(AgentState), line 102: a node's partial update is merged into
\* the state key by key (no reducer is annotated in lines 19-23, so a key
\* of the update overwrites and every other key is kept)
Merge(st, update) ==
    [k \in DOMAIN st |-> IF k \in DOMAIN update THEN update[k] ELSE st[k]]

NextNodeSkipsResearch(node) ==
    CASE node = "start" -> "get_trends"
      [] node = "get_trends" -> "synthesize"
      [] node = "research_context" -> "synthesize"
      [] node = "synthesize" -> "end"

\* lines 108-111: the entry point and the edges of the graph
NextNode(node) ==
    CASE node = "start" -> "get_trends"
      [] node = "get_trends" -> "research_context"
      [] node = "research_context" -> "synthesize"
      [] node = "synthesize" -> "end"

\* One entry of the call history.  The reply of a model call is kept when it
\* flows into the AgentState (trends, context_reports, final_report); the
\* country reply only feeds the locals country and url, held in frame.
LlmCall(stage, trend) ==
    [op |-> "llm", stage |-> stage, trend |-> trend, outcome |-> "pending",
     reply |-> <<>>]

SearchCall(stage, trend, outcome) ==
    [op |-> "search", stage |-> stage, trend |-> trend, outcome |-> outcome,
     reply |-> <<>>]

\* the call in flight (the last entry) returns `reply` / raises
Returned(log, reply) ==
    [log EXCEPT ![Len(log)].outcome = "returned", ![Len(log)].reply = reply]

RaisedLast(log) == [log EXCEPT ![Len(log)].outcome = "raised"]

Set(f, r, v) == [f EXCEPT ![r] = v]

PipeInit ==
    /\ pc = [r \in Requests |-> "idle"]
    /\ state = [r \in Requests |-> NoState]
    /\ frame = [r \in Requests |-> NoFrame]
    /\ pending = [r \in Requests |-> {}]
    /\ calls = [r \in Requests |-> <<>>]
    /\ stages = [r \in Requests |-> <<>>]
    /\ out = [r \in Requests |-> <<>>]

RaiseAndYieldPartial(r, log) ==
    /\ pc' = Set(pc, r, "failed")
    /\ frame' = Set(frame, r, NoFrame)
    /\ pending' = Set(pending, r, {})
    /\ calls' = Set(calls, r, log)
    /\ stages' = Set(stages, r, Append(stages[r], "failed"))
    /\ out' = Set(out, r, Append(out[r], [text |-> state[r].final_report]))
    /\ UNCHANGED state

\* An exception raised in a node: no node, no graph edge and no handler line
\* catches it (lines 143-152 hold no try), so the handler ends without yielding.
Raise(r, log) ==
    /\ pc' = Set(pc, r, "failed")
    /\ frame' = Set(frame, r, NoFrame)
    /\ pending' = Set(pending, r, {})
    /\ calls' = Set(calls, r, log)
    /\ stages' = Set(stages, r, Append(stages[r], "failed"))
    /\ UNCHANGED <<state, out>>

ReceiveShared(r) ==
    /\ pc[r] = "idle"
    /\ state' = [x \in Requests |-> InitialState(get_message_text(Inbound[r]))]
    /\ pc' = Set(pc, r, NextNode("start"))
    /\ stages' = Set(stages, r, Append(stages[r], "received"))
    /\ UNCHANGED <<frame, pending, calls, out>>

\* lines 144-149: the handler is called with an inbound message
Receive(r) ==
    /\ pc[r] = "idle"
    /\ state' = Set(state, r, InitialState(get_message_text(Inbound[r])))
    /\ pc' = Set(pc, r, NextNode("start"))
    /\ stages' = Set(stages, r, Append(stages[r], "received"))
    /\ UNCHANGED <<frame, pending, calls, out>>

\* lines 150, 108, 32-43: the graph enters get_trends, which awaits the
\* country prompt
AnalyzeStart(r) ==
    /\ pc[r] = "get_trends"
    /\ frame' = Set(frame, r, [node |-> "get_trends", query |-> state[r].query])
    /\ pending' = Set(pending, r, {CountryPrompt(state[r].query)})
    /\ calls' = Set(calls, r, Append(calls[r], LlmCall("country", <<>>)))
    /\ pc' = Set(pc, r, "await_country")
    /\ stages' = Set(stages, r, Append(stages[r], "resolving-country"))
    /\ UNCHANGED <<state, out>>

\* lines 43-62: the country reply is normalized, the URL built, the search
\* made, and the extraction prompt awaited
CountryReply(r) ==
    /\ pc[r] = "await_country"
    /\ \E reply \in CountryReplies :
        LET country == NormalizeCountry(reply)
            url == BuildUrl(country)
            log == Returned(calls[r], <<>>)
        IN  \/ \E results \in TrendSearchOutcomes :
                /\ frame' = Set(frame, r,
                      [node |-> "get_trends", query |-> frame[r].query,
                       country |-> country, url |-> url,
                       search_query |-> SearchQuery(country),
                       results_text |-> ResultsText(results)])
                /\ pending' = Set(pending, r,
                      {ExtractPrompt(url, ResultsText(results))})
                /\ calls' = Set(calls, r,
                      Append(Append(log, SearchCall("trends", <<>>, "returned")),
                             LlmCall("trends", <<>>)))
                /\ pc' = Set(pc, r, "await_extract")
                /\ stages' = Set(stages, r,
                      Append(stages[r], "extracting-trends"))
                /\ UNCHANGED <<state, out>>
            \/ \* search_wrapper.results raises (line 54)
               Raise(r, Append(log, SearchCall("trends", <<>>, "raised")))

\* lines 62-65, 109: the extraction reply is parsed; the node returns
\* {"trends": ...}, which the graph merges into the state
ExtractReply(r) ==
    /\ pc[r] = "await_extract"
    /\ \E reply \in ExtractReplies :
        /\ state' = Set(state, r, Merge(state[r], TrendsUpdate(reply)))
        /\ calls' = Set(calls, r, Returned(calls[r], reply))
    /\ frame' = Set(frame, r, NoFrame)
    /\ pending' = Set(pending, r, {})
    /\ pc' = Set(pc, r, NextNode("get_trends"))
    /\ UNCHANGED <<stages, out>>

\* lines 67-69
ResearchStart(r) ==
    /\ pc[r] = "research_context"
    /\ frame' = Set(frame, r,
          [node |-> "research_context", reports |-> <<>>, i |-> 1])
    /\ pc' = Set(pc, r, "research_loop")
    /\ stages' = Set(stages, r, Append(stages[r], "researching-context"))
    /\ UNCHANGED <<state, pending, calls, out>>

ResearchTrendSkipsEmpty(r, trend, results) ==
    IF results = <<>>
    THEN
      /\ frame' = Set(frame, r,
            [node |-> "research_context", reports |-> frame[r].reports,
             i |-> frame[r].i + 1, trend |-> trend, search_results |-> results])
      /\ calls' = Set(calls, r,
            Append(calls[r], SearchCall("context", trend, "returned")))
      /\ UNCHANGED <<pc, pending, state, stages, out>>
    ELSE
      /\ frame' = Set(frame, r,
            [node |-> "research_context", reports |-> frame[r].reports,
             i |-> frame[r].i, trend |-> trend, search_results |-> results])
      /\ pending' = Set(pending, r, pending[r] \cup {ContextPrompt(trend, results)})
      /\ calls' = Set(calls, r,
            Append(Append(calls[r], SearchCall("context", trend, "returned")),
                   LlmCall("context", trend)))
      /\ pc' = Set(pc, r, "await_context")
      /\ UNCHANGED <<state, stages, out>>

\* lines 73-81: the search for `trend` returned `results`; the prompt is
\* built from them, whatever they are, and awaited
ResearchTrend(r, trend, results) ==
    /\ frame' = Set(frame, r,
          [node |-> "research_context", reports |-> frame[r].reports,
           i |-> frame[r].i, trend |-> trend, search_results |-> results])
    /\ pending' = Set(pending, r, pending[r] \cup {ContextPrompt(trend, results)})
    /\ calls' = Set(calls, r,
          Append(Append(calls[r], SearchCall("context", trend, "returned")),
                 LlmCall("context", trend)))
    /\ pc' = Set(pc, r, "await_context")
    /\ UNCHANGED <<state, stages, out>>

\* lines 70-81: the next trend is searched and its prompt awaited
ResearchIterate(r) ==
    /\ pc[r] = "research_loop"
    /\ frame[r].i <= Len(state[r].trends)
    /\ LET trend == state[r].trends[frame[r].i]
       IN  \/ \E results \in ContextSearchOutcomes :
                ResearchTrend(r, trend, results)
           \/ \* search_wrapper.results raises (line 73)
              Raise(r, Append(calls[r], SearchCall("context", trend, "raised")))

\* lines 81-82: the reply is stripped and appended; trend and search_results
\* stay bound until the next iteration
ContextReply(r) ==
    /\ pc[r] = "await_context"
    /\ \E reply \in ContextReplies :
        /\ frame' = Set(frame, r,
              [frame[r] EXCEPT !.reports = AppendReport(frame[r].reports, reply),
                               !.i = frame[r].i + 1])
        /\ calls' = Set(calls, r, Returned(calls[r], reply))
    /\ pending' = Set(pending, r, {})
    /\ pc' = Set(pc, r, "research_loop")
    /\ UNCHANGED <<state, stages, out>>

\* lines 70, 84, 110: the loop is over; the node returns
\* {"context_reports": reports}
ResearchReturn(r) ==
    /\ pc[r] = "research_loop"
    /\ frame[r].i > Len(state[r].trends)
    /\ state' = Set(state, r, Merge(state[r], ReportsUpdate(frame[r].reports)))
    /\ frame' = Set(frame, r, NoFrame)
    /\ pc' = Set(pc, r, NextNode("research_context"))
    /\ UNCHANGED <<pending, calls, stages, out>>

\* lines 86-97
SynthStart(r) ==
    /\ pc[r] = "synthesize"
    /\ LET reports_text == ReportsText(state[r].context_reports)
       IN  /\ frame' = Set(frame, r,
                 [node |-> "synthesize", reports_text |-> reports_text])
           /\ pending' = Set(pending, r, {FinalPrompt(reports_text)})
    /\ calls' = Set(calls, r, Append(calls[r], LlmCall("final", <<>>)))
    /\ pc' = Set(pc, r, "await_final")
    /\ stages' = Set(stages, r, Append(stages[r], "synthesizing"))
    /\ UNCHANGED <<state, out>>

\* lines 97-98, 111: the node returns {"final_report": ...}; the graph ends
FinalReply(r) ==
    /\ pc[r] = "await_final"
    /\ \E reply \in FinalReplies :
        /\ state' = Set(state, r, Merge(state[r], FinalUpdate(reply)))
        /\ calls' = Set(calls, r, Returned(calls[r], reply))
    /\ frame' = Set(frame, r, NoFrame)
    /\ pending' = Set(pending, r, {})
    /\ pc' = Set(pc, r, NextNode("synthesize"))
    /\ UNCHANGED <<stages, out>>

\* lines 150-152: ainvoke returns and the handler yields its message
Emit(r) ==
    /\ pc[r] = "end"
    /\ out' = Set(out, r, Append(out[r], [text |-> state[r].final_report]))
    /\ pc' = Set(pc, r, "done")
    /\ stages' = Set(stages, r, Append(stages[r], "completed"))
    /\ UNCHANGED <<state, frame, pending, calls>>

\* llm.ainvoke raises (lines 43, 62, 81, 97)
LlmRaise(r) ==
    /\ pc[r] \in {"await_country", "await_extract", "await_context", "await_final"}
    /\ Raise(r, RaisedLast(calls[r]))

Next ==
    \/ \E r \in Requests : Receive(r) /\ UNCHANGED <<parseVars, normVars>>
    \/ \E r \in Requests : AnalyzeStart(r) /\ UNCHANGED <<parseVars, normVars>>
    \/ \E r \in Requests : CountryReply(r) /\ UNCHANGED <<parseVars, normVars>>
    \/ \E r \in Requests : ExtractReply(r) /\ UNCHANGED <<parseVars, normVars>>
    \/ \E r \in Requests : ResearchStart(r) /\ UNCHANGED <<parseVars, normVars>>
    \/ \E r \in Requests : ResearchIterate(r) /\ UNCHANGED <<parseVars, normVars>>
    \/ \E r \in Requests : ContextReply(r) /\ UNCHANGED <<parseVars, normVars>>
    \/ \E r \in Requests : ResearchReturn(r) /\ UNCHANGED <<parseVars, normVars>>
    \/ \E r \in Requests : SynthStart(r) /\ UNCHANGED <<parseVars, normVars>>
    \/ \E r \in Requests : FinalReply(r) /\ UNCHANGED <<parseVars, normVars>>
    \/ \E r \in Requests : Emit(r) /\ UNCHANGED <<parseVars, normVars>>
    \/ \E r \in Requests : LlmRaise(r) /\ UNCHANGED <<parseVars, normVars>>

Init == PipeInit /\ ParseIdle /\ NormIdle

Spec == Init /\ [][Next]_vars

---------------------------------------------------------------------------
PipeIdle ==
    /\ pc = <<>> /\ state = <<>> /\ frame = <<>> /\ pending = <<>>
    /\ calls = <<>> /\ stages = <<>> /\ out = <<>>

InitParse == ParseInit /\ NormIdle /\ PipeIdle

SpecParse == InitParse /\ [][NextParse]_vars

InitNorm == NormInit /\ ParseIdle /\ PipeIdle

SpecNorm == InitNorm /\ [][NextNorm]_vars

---------------------------------------------------------------------------
(* Claims                                                                  *)

AllWhitespace(s) == \A i \in 1..Len(s) : s[i] \in Whitespace

\* t is s with the whitespace at both ends removed
IsTrimOf(t, s) ==
    /\ t = <<>> \/ (t[1] \notin Whitespace /\ t[Len(t)] \notin Whitespace)
    /\ \E a \in 0..Len(s) : \E b \in a..Len(s) :
        /\ t = SubSeq(s, a + 1, b)
        /\ AllWhitespace(SubSeq(s, 1, a))
        /\ AllWhitespace(SubSeq(s, b + 1, Len(s)))

\* the cores of the non-blank pieces, in order
NonBlankCores(ps) ==
    SelectSeq([i \in 1..Len(ps) |-> ps[i].core], LAMBDA c : c # <<>>)

\* C1: whatever the reply to the extraction prompt, the parsed trends are
\* at most 5, each entry is non-empty with no whitespace at either end, and
\* the entries are the first (up to 5) non-blank comma-separated pieces of
\* the reply, trimmed, in their order.
C1_TrendsParsed ==
    p_pc = "parsed" =>
        /\ Len(p_trends) <= 5
        /\ \A i \in 1..Len(p_trends) :
            /\ p_trends[i] # <<>>
            /\ p_trends[i][1] \notin Whitespace
            /\ p_trends[i][Len(p_trends[i])] \notin Whitespace
        /\ LET cores == NonBlankCores(p_pieces)
           IN  p_trends = SubSeq(cores, 1, IF Len(cores) < 5 THEN Len(cores) ELSE 5)

\* a reply with consecutive commas, a blank piece and more than 5 non-blank
\* pieces has been parsed
C1_Witness ==
    /\ p_pc = "parsed"
    /\ Len(NonBlankCores(p_pieces)) > 5
    /\ \E i \in 1..Len(p_pieces) : PieceText(p_pieces[i]) = <<>>
    /\ \E i \in 1..Len(p_pieces) :
        p_pieces[i].core # <<>> /\ p_pieces[i].lead # <<>>
    /\ Len(p_trends) = 5

\* C3: the country-token normalization is idempotent: normalizing the token
\* it produced returns that token.
C3_Idempotent == n_pc = "renormalized" => n_again = n_country

\* C4: the URL is the base URL when the token is global, and otherwise the
\* base URL, the token as it is, and a slash.
C4_Url ==
    n_pc \in {"url", "renormalized"} =>
        LET base == <<"h","t","t","p","s",":","/","/","t","r","e","n","d",
                      "s","2","4",".","i","n","/">>
        IN  /\ n_country = <<"g","l","o","b","a","l">> => n_url = base
            /\ n_country # <<"g","l","o","b","a","l">> =>
                /\ Len(n_url) = Len(base) + Len(n_country) + 1
                /\ SubSeq(n_url, 1, Len(base)) = base
                /\ SubSeq(n_url, Len(base) + 1, Len(base) + Len(n_country))
                     = n_country
                /\ n_url[Len(n_url)] = "/"
            /\ n_country = <<"j","a","p","a","n">> =>
                n_url = base \o <<"j","a","p","a","n","/">>

\* a quoted, capitalised reply gave the token japan and its URL
C4_Witness ==
    /\ n_pc = "url"
    /\ n_content # n_country
    /\ n_country = <<"j","a","p","a","n">>
    /\ n_url = BaseUrl \o <<"j","a","p","a","n","/">>

Range(f) == { f[i] : i \in DOMAIN f }

Last(xs) == xs[Len(xs)]

ContextCalls(r) == SelectSeq(calls[r], LAMBDA c : c.stage = "context")

ContextLlmCalls(r) ==
    SelectSeq(calls[r], LAMBDA c : c.stage = "context" /\ c.op = "llm")

\* research_trends_context has returned
ResearchDone(r) ==
    pc[r] = "synthesize" \/ "synthesizing" \in Range(stages[r])

\* C2: once research_trends_context has completed, context_reports is as
\* long as trends, and report i is the trimmed reply to the model call made
\* for trend i.
C2_ReportsAligned ==
    \A r \in Requests :
        ResearchDone(r) =>
            LET llms == ContextLlmCalls(r)
                st == state[r]
            IN  /\ Len(st.context_reports) = Len(st.trends)
                /\ Len(llms) = Len(st.trends)
                /\ \A i \in 1..Len(st.trends) :
                    /\ llms[i].trend = st.trends[i]
                    /\ llms[i].outcome = "returned"
                    /\ IsTrimOf(st.context_reports[i], llms[i].reply)

\* research completed for three trends of which the first and the third
\* carry the same label, with different replies
C2_Witness ==
    \E r \in Requests :
        /\ ResearchDone(r)
        /\ Len(state[r].trends) = 3
        /\ state[r].trends[1] = state[r].trends[3]
        /\ state[r].context_reports[1] # state[r].context_reports[3]
        /\ state[r].context_reports[1] # ContextLlmCalls(r)[1].reply

StageOrder ==
    <<"received", "resolving-country", "extracting-trends",
      "researching-context", "synthesizing", "completed">>

\* the stage a request is in, from where its code is
StageOf(p) ==
    CASE p = "get_trends" -> "received"
      [] p = "await_country" -> "resolving-country"
      [] p \in {"await_extract", "research_context"} -> "extracting-trends"
      [] p \in {"research_loop", "await_context", "synthesize"} ->
            "researching-context"
      [] p \in {"await_final", "end"} -> "synthesizing"
      [] p = "done" -> "completed"
      [] p = "failed" -> "failed"

\* the stages entered, a final "failed" left out
StagesRun(r) ==
    IF stages[r] # <<>> /\ Last(stages[r]) = "failed"
    THEN SubSeq(stages[r], 1, Len(stages[r]) - 1)
    ELSE stages[r]

\* C5: a request passes through received, resolving-country,
\* extracting-trends, researching-context, synthesizing, completed in that
\* order, none skipped or repeated (a request whose call raised stops where
\* it is); the handler emits one message, after the synthesis returned,
\* carrying final_report.
C5_StagesInOrder ==
    \A r \in Requests :
        /\ StagesRun(r) = SubSeq(StageOrder, 1, Len(StagesRun(r)))
        /\ pc[r] = "idle" <=> stages[r] = <<>>
        /\ pc[r] # "idle" => Last(stages[r]) = StageOf(pc[r])
        /\ Len(out[r]) <= 1
        /\ pc[r] = "done" <=> Len(out[r]) = 1
        /\ Len(out[r]) = 1 =>
            /\ stages[r] = StageOrder
            /\ Last(calls[r]).stage = "final"
            /\ Last(calls[r]).outcome = "returned"
            /\ out[r][1].text = state[r].final_report
            /\ IsTrimOf(state[r].final_report, Last(calls[r]).reply)

\* a request went through every stage and emitted a non-empty report
C5_Witness ==
    \E r \in Requests :
        /\ pc[r] = "done"
        /\ stages[r] = StageOrder
        /\ Len(state[r].trends) = 5
        /\ out[r] = << [text |-> <<"H","i","!">>] >>

\* C6: a call that raises ends the request: it is the last call of the
\* request (no retry, no later call), no later stage runs, and no message
\* is emitted; a message, when there is one, is the synthesized report.
C6_FailsOutright ==
    \A r \in Requests :
        /\ \A i \in 1..Len(calls[r]) :
            calls[r][i].outcome = "raised" => i = Len(calls[r])
        /\ pc[r] = "failed" <=>
            (calls[r] # <<>> /\ Last(calls[r]).outcome = "raised")
        /\ pc[r] = "failed" =>
            /\ out[r] = <<>>
            /\ pending[r] = {}
            /\ Last(stages[r]) = "failed"
        /\ \A i \in 1..Len(stages[r]) :
            stages[r][i] = "failed" => i = Len(stages[r])
        /\ out[r] # <<>> =>
            /\ Len(out[r]) = 1
            /\ Last(calls[r]).stage = "final"
            /\ IsTrimOf(out[r][1].text, Last(calls[r]).reply)

\* the search for the second trend raised, with one report already made
C6_Witness ==
    \E r \in Requests :
        /\ pc[r] = "failed"
        /\ Len(ContextLlmCalls(r)) = 1
        /\ Last(calls[r]).op = "search"
        /\ Last(calls[r]).outcome = "raised"
        /\ out[r] = <<>>

\* what belongs to request r
Own(r) == <<pc[r], state[r], frame[r], pending[r], calls[r], stages[r], out[r]>>

\* C7: whatever the interleaving, a step changes what belongs to one request
\* only; a request's query is its own inbound text, and the message emitted
\* for it is the trimmed reply to its own final model call.
C7_Private ==
    [][ /\ \A r1, r2 \in Requests :
            (r1 # r2 /\ Own(r1)' # Own(r1)) => Own(r2)' = Own(r2)
        /\ \A r \in Requests :
            /\ pc'[r] # "idle" => state'[r].query = Inbound[r].text
            /\ out'[r] # out[r] =>
                /\ Len(out'[r]) = 1
                /\ Last(calls[r]).stage = "final"
                /\ IsTrimOf(out'[r][1].text, Last(calls[r]).reply) ]_vars

\* two requests are in flight at different stages, with different trends
C7_Witness ==
    /\ pc["r1"] = "await_context"
    /\ pc["r2"] = "await_final"
    /\ state["r1"].trends # state["r2"].trends
    /\ state["r1"].query # state["r2"].query
    /\ state["r2"].context_reports # <<>>

\* the reply to the extraction prompt was a single non-blank phrase with no comma
SinglePhrase(r) ==
    \E i \in 1..Len(calls[r]) :
        /\ calls[r][i].stage = "trends" /\ calls[r][i].op = "llm"
        /\ calls[r][i].outcome = "returned"
        /\ "," \notin Range(calls[r][i].reply)
        /\ ~AllWhitespace(calls[r][i].reply)

\* some step of request r
RequestStep(r) ==
    \/ Receive(r) \/ AnalyzeStart(r) \/ CountryReply(r) \/ ExtractReply(r)
    \/ ResearchStart(r) \/ ResearchIterate(r) \/ ContextReply(r)
    \/ ResearchReturn(r) \/ SynthStart(r) \/ FinalReply(r) \/ Emit(r)
    \/ LlmRaise(r)

\* C8: when the reply to the extraction prompt is one phrase with no comma,
\* trends has exactly 1 entry, context_reports has exactly 1 entry once the
\* research is done, and the request goes on to its end (it is never stuck
\* short of done, unless a call raised), where the synthesizer's report is
\* emitted.
C8_SinglePhrase ==
    \A r \in Requests :
        SinglePhrase(r) =>
            /\ Len(state[r].trends) = 1
            /\ ResearchDone(r) => Len(state[r].context_reports) = 1
            /\ pc[r] \notin {"done", "failed"} => ENABLED RequestStep(r)
            /\ pc[r] = "done" =>
                /\ out[r] = << [text |-> state[r].final_report] >>
                /\ Last(calls[r]).stage = "final"
                /\ Last(calls[r]).outcome = "returned"

\* the single phrase "big game" went through to an emitted report
C8_Witness ==
    \E r \in Requests :
        /\ SinglePhrase(r)
        /\ pc[r] = "done"
        /\ state[r].trends = << <<"b","i","g"," ","g","a","m","e">> >>
        /\ Len(state[r].context_reports) = 1
        /\ out[r] = << [text |-> <<"H","i","!">>] >>

\* C9: in research_trends_context the calls are, trend by trend in trends
\* order, one search and then one model call; at most one call of a request
\* is in flight; the model call is issued with whatever the search returned.
C9_OneSearchThenOneModelCall ==
    \A r \in Requests : pc[r] # "idle" =>
        LET cc == ContextCalls(r)
            ts == state[r].trends
        IN  /\ Len(cc) <= 2 * Len(ts)
            /\ \A k \in 1..Len(cc) :
                /\ cc[k].trend = ts[(k + 1) \div 2]
                /\ cc[k].op = IF k % 2 = 1 THEN "search" ELSE "llm"
                /\ k < Len(cc) => cc[k].outcome = "returned"
            /\ (cc # <<>> /\ Last(cc).op = "search") => Last(cc).outcome = "raised"
            /\ ResearchDone(r) => Len(cc) = 2 * Len(ts)
            /\ Cardinality(pending[r]) <= 1
            /\ Cardinality({i \in 1..Len(calls[r]) :
                              calls[r][i].outcome = "pending"})
                 = Cardinality(pending[r])
            /\ pc[r] = "await_context" =>
                /\ frame[r].trend = ts[frame[r].i]
                /\ pending[r] =
                     {ContextPrompt(frame[r].trend, frame[r].search_results)}
                /\ Last(calls[r]) = LlmCall("context", frame[r].trend)
            /\ (pc[r] = "research_loop" /\ frame[r].i > 1) =>
                Len(frame[r].reports) = frame[r].i - 1

\* the search for the second trend returned nothing, and its report was
\* produced all the same
C9_Witness ==
    \E r \in Requests :
        /\ pc[r] = "research_loop"
        /\ frame[r].i = 3
        /\ frame[r].search_results = <<>>
        /\ Len(frame[r].reports) = 2
        /\ Len(ContextCalls(r)) = 4

\* C10: a request starts with its query, no trends, no context_reports and
\* an empty final_report; query never changes; trends is changed by
\* analyze_and_get_trends only, context_reports by research_trends_context
\* only, final_report by synthesize_report only, each leaving the other
\* fields as they were.
C10_FieldsAdditive ==
    [][ \A r \in Requests :
          IF pc[r] = "idle"
          THEN state'[r] # state[r] =>
                 state'[r] = [query |-> Inbound[r].text, trends |-> <<>>,
                              context_reports |-> <<>>, final_report |-> <<>>]
          ELSE
            /\ DOMAIN state'[r] = DOMAIN state[r]
            /\ state'[r].query = state[r].query
            /\ state'[r].trends # state[r].trends =>
                /\ pc[r] = "await_extract"
                /\ state'[r].context_reports = state[r].context_reports
                /\ state'[r].final_report = state[r].final_report
            /\ state'[r].context_reports # state[r].context_reports =>
                /\ pc[r] = "research_loop"
                /\ state'[r].trends = state[r].trends
                /\ state'[r].final_report = state[r].final_report
            /\ state'[r].final_report # state[r].final_report =>
                /\ pc[r] = "await_final"
                /\ state'[r].trends = state[r].trends
                /\ state'[r].context_reports = state[r].context_reports ]_vars

\* every field of a request has been populated
C10_Witness ==
    \E r \in Requests :
        /\ pc[r] = "done"
        /\ state[r].query # <<>>
        /\ Len(state[r].trends) = 3
        /\ Len(state[r].context_reports) = 3
        /\ state[r].final_report # <<>>

=============================================================================
